---- MODULE Spec2Model ----
(***************************************************************************)
(* A model of nous' wikilink scanner (src/wikilinks.rs) and of the link    *)
(* queries built on it (src/main.rs).                                      *)
(*                                                                         *)
(* Bytes are integers 0..255 and a stream is a sequence of bytes.  The     *)
(* scanner is modelled step by step: one action per iteration of the loop  *)
(* of skip_to_opening_tag, one per read_until call of read_to_closing_tag, *)
(* one for extract_link_target and the test that follows it.  The sizes of *)
(* the reads that refill the BufReader are chosen by the environment.      *)
(***************************************************************************)
EXTENDS Integers, Sequences, FiniteSets, TLC

\* ------------------------------------------------------------------ bounds

\* Longest stream over ScanBytes that the scanner is run on.
MaxLen == 7

\* Longest link body over BodyBytes that is wrapped in [[ and ]].
MaxBody == 3

\* Longest stream over ScanBytes that is scanned under the fairness conditions.
LiveLen == 5

\* Longest body of each of two links in a row.
PairBody == 1

\* Most paths a realm holds.
MaxFiles == 2

\* Threads of the pool that list_backlinks' par_bridge runs on.
NumWorkers == 2

\* ------------------------------------------------------- program constants

\* b'[' (wikilinks.rs:14), b']' (wikilinks.rs:33), b'|' and b'#' (wikilinks.rs:48)
LBRACKET == 91
RBRACKET == 93
PIPE == 124
HASH == 35

\* The "." that starts a hidden entry's name (main.rs:418) and an extension.
DOT == 46

\* Capacity of the BufReader that read_wikilinks builds (64 * 1024).
BUF_CAPACITY == 65536

\* u8::is_ascii_whitespace, which <[u8]>::trim_ascii strips: TAB, LF, FF, CR, SPACE.
AsciiWhitespace == {9, 10, 12, 13, 32}

\* The value of an Option<usize> that is None.
NoIdx == -1

\* ------------------------------------------------------------ byte helpers

Min(a, b) == IF a < b THEN a ELSE b

\* F applied to the value of v, v being evaluated once (a strict let).
Bind(v, F(_)) == CHOOSE r \in {F(x) : x \in {v}} : TRUE

\* All byte strings over alphabet A of length at most n.
Strings(A, n) == UNION {[1..k -> A] : k \in 0..n}

\* memchr::memchr(needle, haystack): 0-based index of the first needle, or None.
memchr(needle, haystack) ==
    IF \E i \in 1..Len(haystack) : haystack[i] = needle
    THEN (CHOOSE i \in 1..Len(haystack) :
            /\ haystack[i] = needle
            /\ \A j \in 1..(i - 1) : haystack[j] # needle) - 1
    ELSE NoIdx

\* memchr::memchr2(n1, n2, haystack): 0-based index of the first n1 or n2, or None.
memchr2(n1, n2, haystack) ==
    IF \E i \in 1..Len(haystack) : haystack[i] \in {n1, n2}
    THEN (CHOOSE i \in 1..Len(haystack) :
            /\ haystack[i] \in {n1, n2}
            /\ \A j \in 1..(i - 1) : haystack[j] \notin {n1, n2}) - 1
    ELSE NoIdx

\* Vec::truncate(idx): keeps the first idx elements.
Truncate(buf, idx) == SubSeq(buf, 1, Min(idx, Len(buf)))

\* Vec::pop(), its result ignored: drops the last element, if there is one.
Pop(buf) == IF buf = <<>> THEN buf ELSE SubSeq(buf, 1, Len(buf) - 1)

\* <[u8]>::trim_ascii_start and trim_ascii_end.
RECURSIVE TrimAsciiStart(_)
TrimAsciiStart(b) ==
    IF b # <<>> /\ Head(b) \in AsciiWhitespace THEN TrimAsciiStart(Tail(b)) ELSE b

RECURSIVE TrimAsciiEnd(_)
TrimAsciiEnd(b) ==
    IF b # <<>> /\ b[Len(b)] \in AsciiWhitespace THEN TrimAsciiEnd(Pop(b)) ELSE b

\* <[u8]>::trim_ascii
TrimAscii(b) == TrimAsciiEnd(TrimAsciiStart(b))

\* A UTF-8 continuation byte.
IsCont(b) == b \in 128..191

\* String::from_utf8's validation (core::str::from_utf8): the well-formed
\* byte sequences of the Unicode standard, table 3-7.
RECURSIVE IsUtf8(_)
IsUtf8(b) ==
    IF b = <<>> THEN TRUE
    ELSE LET c == b[1]
             n == Len(b)
             Rest(k) == SubSeq(b, k + 1, n)
         IN  CASE c \in 0..127 -> IsUtf8(Rest(1))
               [] c \in 194..223 ->
                    n >= 2 /\ IsCont(b[2]) /\ IsUtf8(Rest(2))
               [] c = 224 ->
                    n >= 3 /\ b[2] \in 160..191 /\ IsCont(b[3]) /\ IsUtf8(Rest(3))
               [] c \in (225..236) \cup {238, 239} ->
                    n >= 3 /\ IsCont(b[2]) /\ IsCont(b[3]) /\ IsUtf8(Rest(3))
               [] c = 237 ->
                    n >= 3 /\ b[2] \in 128..159 /\ IsCont(b[3]) /\ IsUtf8(Rest(3))
               [] c = 240 ->
                    n >= 4 /\ b[2] \in 144..191 /\ IsCont(b[3]) /\ IsCont(b[4])
                           /\ IsUtf8(Rest(4))
               [] c \in 241..243 ->
                    n >= 4 /\ IsCont(b[2]) /\ IsCont(b[3]) /\ IsCont(b[4])
                           /\ IsUtf8(Rest(4))
               [] c = 244 ->
                    n >= 4 /\ b[2] \in 128..143 /\ IsCont(b[3]) /\ IsCont(b[4])
                           /\ IsUtf8(Rest(4))
               [] OTHER -> FALSE

\* ---------------------------------------------------------------- scanner

\* extract_link_target cutting at | only, as memchr in place of memchr2 would.
extract_link_target_pipe_only(buf) ==
    LET idx == memchr(PIPE, buf)
        cut == IF idx # NoIdx THEN Truncate(buf, idx) ELSE buf
        tgt == TrimAscii(cut)
    IN  [ok |-> IsUtf8(tgt), tgt |-> tgt]

\* extract_link_target: Ok(target) or Err(FromUtf8Error).
extract_link_target(buf) ==
    LET idx == memchr2(PIPE, HASH, buf)
        cut == IF idx # NoIdx THEN Truncate(buf, idx) ELSE buf
        tgt == TrimAscii(cut)
    IN  [ok |-> IsUtf8(tgt), tgt |-> tgt]

\* BufRead::read_until(delim) from position pos of stream s: the number of bytes
\* it reads, which is up to and including the first delim, or up to the end.
read_until(s, pos, delim) ==
    LET i == memchr(delim, SubSeq(s, pos + 1, Len(s)))
    IN  IF i # NoIdx THEN i + 1 ELSE Len(s) - pos

\* fill_buf whose refill may come back with no bytes before the stream's end.
fill_buf_maybe_nothing(s, pos, filled) ==
    IF pos < filled THEN {filled}
    ELSE {pos + n : n \in 0..Min(BUF_CAPACITY, Len(s) - pos)}

\* BufReader::fill_buf with the reader at pos and the buffer holding the bytes up
\* to filled: the possible ends of the bytes it exposes.  A non-empty buffer is
\* exposed as it is; an empty one is refilled by one read of the underlying
\* stream, which returns at least one byte unless the stream has ended.
fill_buf(s, pos, filled) ==
    IF pos < filled THEN {filled}
    ELSE IF pos = Len(s) THEN {pos}
    ELSE {pos + n : n \in 1..Min(BUF_CAPACITY, Len(s) - pos)}

\* The buffer after read_until has moved the reader from pos to npos: untouched
\* when npos lies in it, else whatever the last refill left over.
buffer_after(s, filled, npos) ==
    IF npos <= filled THEN {filled} ELSE npos..Len(s)

\* The body of the loop of skip_to_opening_tag, given what fill_buf exposed:
\* eof is the return of Err(UnexpectedEof), found the return of Ok(position - 2).
SkipIter(available, st2) ==
    LET i == memchr(LBRACKET, available)
        used == IF i # NoIdx THEN i + 1 ELSE Len(available)
    IN  [eof |-> i = NoIdx /\ Len(available) = 0,
         on_chr |-> i # NoIdx,
         used |-> used,
         found |-> st2 /\ used = 1]

\* The body of the loop of read_to_closing_tag: one read_until appended to acc.
CloseIter(s, pos, acc) ==
    LET read == read_until(s, pos, RBRACKET)
    IN  [read |-> read, buf |-> acc \o SubSeq(s, pos + 1, pos + read)]

\* ------------------------------------------- the scanner on a whole stream
\* The same code run to its end, every refill of the buffer being one read of
\* up to k bytes.

Refill(s, pos, filled, k) ==
    IF pos < filled THEN filled ELSE Min(Len(s), pos + Min(k, BUF_CAPACITY))

RECURSIVE RefillTo(_, _, _, _)
RefillTo(s, filled, npos, k) ==
    IF npos <= filled THEN filled
    ELSE Bind(Min(Len(s), filled + Min(k, BUF_CAPACITY)), LAMBDA f :
            RefillTo(s, f, npos, k))

RECURSIVE skip_to_opening_tag(_, _, _, _, _)
skip_to_opening_tag(s, pos, filled, st2, k) ==
    Bind(Refill(s, pos, filled, k), LAMBDA f :
    Bind(SkipIter(SubSeq(s, pos + 1, f), st2), LAMBDA it :
        IF it.eof THEN [ok |-> FALSE, pos |-> pos, filled |-> f, idx |-> 0]
        ELSE IF it.found
        THEN [ok |-> TRUE, pos |-> pos + it.used, filled |-> f,
              idx |-> (pos + it.used) - 2]
        ELSE Bind(pos + it.used, LAMBDA npos :
                skip_to_opening_tag(s, npos, f, it.on_chr, k))))

RECURSIVE CloseLoop(_, _, _)
CloseLoop(s, pos, acc) ==
    Bind(CloseIter(s, pos, acc), LAMBDA it :
        IF it.read = 1 THEN [ok |-> TRUE, pos |-> pos + 1, buf |-> Pop(Pop(it.buf))]
        ELSE IF it.read = 0 THEN [ok |-> FALSE, pos |-> pos, buf |-> it.buf]
        ELSE Bind(pos + it.read, LAMBDA npos : CloseLoop(s, npos, it.buf)))

read_to_closing_tag(s, pos) ==
    Bind(CloseIter(s, pos, <<>>), LAMBDA first :
        CloseLoop(s, pos + first.read, first.buf))

RECURSIVE next_wikilink(_, _, _, _)
next_wikilink(s, pos, filled, k) ==
    Bind(skip_to_opening_tag(s, pos, filled, FALSE, k), LAMBDA o :
        IF ~o.ok THEN [some |-> FALSE]
        ELSE Bind(read_to_closing_tag(s, o.pos), LAMBDA c :
            IF ~c.ok THEN [some |-> FALSE]
            ELSE Bind(extract_link_target(c.buf), LAMBDA t :
                 Bind(RefillTo(s, o.filled, c.pos, k), LAMBDA f :
                    IF ~t.ok THEN [some |-> FALSE]
                    ELSE IF t.tgt # <<>>
                    THEN [some |-> TRUE, idx |-> o.idx, tgt |-> t.tgt,
                          pos |-> c.pos, filled |-> f]
                    ELSE next_wikilink(s, c.pos, f, k)))))

RECURSIVE WikilinksFrom(_, _, _, _)
WikilinksFrom(s, pos, filled, k) ==
    Bind(next_wikilink(s, pos, filled, k), LAMBDA n :
        IF n.some
        THEN <<<<n.idx, n.tgt>>>> \o WikilinksFrom(s, n.pos, n.filled, k)
        ELSE <<>>)

\* read_wikilinks(reader) run to its first None.
read_wikilinks(s, k) == WikilinksFrom(s, 0, 0, k)

\* ------------------------------------------------------------------ realm
\* A file name is a byte string, a path below the realm root a sequence of
\* names, the realm a function from the paths that exist to what is there.

\* to_ascii_lowercase leaving every byte as it is.
to_ascii_lowercase_none(b) == b

\* to_ascii_lowercase of one byte
to_ascii_lowercase(b) == IF b \in 65..90 THEN b + 32 ELSE b

\* eq_ignore_ascii_case comparing the bytes as they are.
eq_exact_case(a, b) == a = b

\* eq_ignore_ascii_case of str and OsStr
eq_ignore_ascii_case(a, b) ==
    /\ Len(a) = Len(b)
    /\ \A i \in 1..Len(a) : to_ascii_lowercase(a[i]) = to_ascii_lowercase(b[i])

\* Position of the last . of a file name, 0 when it has none.
LastDot(name) ==
    LET D == {i \in 1..Len(name) : name[i] = DOT}
    IN  IF D = {} THEN 0 ELSE CHOOSE i \in D : \A j \in D : j <= i

\* Path::file_stem and Path::extension of a file name: a name with no . , or
\* whose only . is its first byte, is all stem and has no extension.
file_stem(name) ==
    IF LastDot(name) <= 1 THEN name ELSE SubSeq(name, 1, LastDot(name) - 1)

extension(name) ==
    IF LastDot(name) <= 1 THEN [some |-> FALSE, val |-> <<>>]
    ELSE [some |-> TRUE, val |-> SubSeq(name, LastDot(name) + 1, Len(name))]

\* config.rs: "md", "markdown", "org", "txt", "text"
SUPPORTED_EXTS ==
    { <<109, 100>>, <<109, 97, 114, 107, 100, 111, 119, 110>>, <<111, 114, 103>>,
      <<116, 120, 116>>, <<116, 101, 120, 116>> }

\* realm_walker's is_hidden: the entry's file name starts with "."
is_hidden(name) == name # <<>> /\ name[1] = DOT

\* The absent Option<PathBuf>.
NoPath == <<>>

\* realm_walker: the entries in traversal order, nothing at or below a hidden
\* entry (the root included: filter_entry is asked about it too), and of the
\* rest those whose extension is a supported one.
realm_walker(rt, ord) ==
    LET Kept(p) ==
            /\ \A i \in 1..Len(p) : ~is_hidden(p[i])
            /\ extension(p[Len(p)]).some
            /\ \E s \in SUPPORTED_EXTS :
                    eq_ignore_ascii_case(extension(p[Len(p)]).val, s)
    IN  IF is_hidden(rt) THEN <<>> ELSE SelectSeq(ord, Kept)

\* find_node: the walked paths whose stem is the node's name and that are files.
find_node(rt, rl, ord, nd) ==
    LET Matches(p) ==
            /\ eq_ignore_ascii_case(file_stem(p[Len(p)]), nd)
            /\ rl[p].kind = "file"
    IN  SelectSeq(realm_walker(rt, ord), Matches)

\* find_node_once with its strict taken to be false.
find_node_once_lenient(rt, rl, ord, nd, st) ==
    LET matcher == find_node(rt, rl, ord, nd)
    IN  [result |-> IF matcher = <<>> THEN NoPath ELSE matcher[1],
         fatal |-> FALSE,
         warned |-> Len(matcher) >= 2]

\* find_node_once with its strict taken to be true.
find_node_once_strict(rt, rl, ord, nd, st) ==
    LET matcher == find_node(rt, rl, ord, nd)
    IN  [result |-> IF matcher = <<>> THEN NoPath ELSE matcher[1],
         fatal |-> Len(matcher) >= 2,
         warned |-> FALSE]

\* find_node_once taking the last match instead of the first.
find_node_once_last(rt, rl, ord, nd, st) ==
    LET matcher == find_node(rt, rl, ord, nd)
    IN  [result |-> IF matcher = <<>> THEN NoPath ELSE matcher[Len(matcher)],
         fatal |-> Len(matcher) >= 2 /\ st,
         warned |-> Len(matcher) >= 2 /\ ~st]

\* find_node_once: the first match; with a second match, error! (the process
\* exits) when strict, else a warning.
find_node_once(rt, rl, ord, nd, strict) ==
    LET matcher == find_node(rt, rl, ord, nd)
    IN  [result |-> IF matcher = <<>> THEN NoPath ELSE matcher[1],
         fatal |-> Len(matcher) >= 2 /\ strict,
         warned |-> Len(matcher) >= 2 /\ ~strict]

\* Byte-wise lexicographic order of String, the order of a BTreeSet<String>.
RECURSIVE StrLess(_, _)
StrLess(a, b) ==
    IF a = <<>> THEN b # <<>>
    ELSE IF b = <<>> THEN FALSE
    ELSE IF a[1] # b[1] THEN a[1] < b[1]
    ELSE StrLess(Tail(a), Tail(b))

\* The elements of a BTreeSet<String> in the order its iterator gives them.
RECURSIVE BTreeSetIter(_)
BTreeSetIter(S) ==
    IF S = {} THEN <<>>
    ELSE LET m == CHOOSE x \in S : \A y \in S \ {x} : StrLess(x, y)
         IN  <<m>> \o BTreeSetIter(S \ {m})

\* The targets of a sequence of (offset, target) occurrences.
Targets(occ) == {occ[i][2] : i \in 1..Len(occ)}

\* What read_wikilinks can produce from a file of content c before its first
\* None.  The file arrives whole in one read, or byte by byte; a read that
\* fails ends the scan after the occurrences yielded so far.
FileScans(c) ==
    Bind(read_wikilinks(c, 1), LAMBDA bytewise :
        {read_wikilinks(c, BUF_CAPACITY)}
        \cup {SubSeq(bytewise, 1, n) : n \in 0..Len(bytewise)})

\* File contents: [[b]], [[A]][[a]], and [xa]] .
Docs ==
    { <<91, 91, 98, 93, 93>>,
      <<91, 91, 65, 93, 93, 91, 91, 97, 93, 93>>,
      <<91, 120, 97, 93, 93>> }

\* What read_wikilinks can produce from an opened entry: the outcomes worked
\* out from its content when the realm was set up.
ScanOutcomes(e) == e.scans

VARIABLES
    stream,     \* the bytes of the underlying reader
    rpos,       \* bytes consumed from the BufReader (its stream position)
    filled,     \* end of the bytes the BufReader holds in its buffer
    stage_two,  \* skip_to_opening_tag's flag: the last byte consumed was a [
    pc,         \* where next_wikilink stands: skip, first, close, extract, done
    idx,        \* the offset skip_to_opening_tag returned
    buf,        \* the bytes read_to_closing_tag has accumulated
    out,        \* the (offset, target) pairs yielded so far
    ioerr,      \* a read of the underlying stream failed
    resumed,    \* next was called again after it had returned None
    root,       \* file name of the realm's root directory
    realm,      \* path below the root -> [kind, content, openable, scans]
    order,      \* the order in which WalkDir comes by the paths
    op,         \* the command: resolve, remove, backlinks, forwardlinks, links
    node,       \* the node name given to it
    strict,     \* find_node_once's strict (resolve, remove)
    path,       \* absolute || path: print paths, not names
    phase,      \* where the command stands
    pending,    \* back-links: what the realm_walker iterator has yet to give
    held,       \* back-links: the paths that workers have taken and not finished
    scanned,    \* back-links: path -> the occurrences read_wikilinks produced from it
    links,      \* forward-links: the rest of the BTreeSet being iterated
    result,     \* what find_node_once returned for the node
    printed,    \* the lines written to stdout
    warnings,   \* the warn! messages
    fatal       \* error! was called: the process has exited with status 1

scanvars == <<stream, rpos, filled, stage_two, pc, idx, buf, out, ioerr,
              resumed>>

realmvars == <<root, realm, order, op, node, strict, path, phase, pending, held,
               scanned, links, result, printed, warnings, fatal>>

vars == <<scanvars, realmvars>>

\* No command is being run: the state of the realm's variables under SpecScan.
NoRealm ==
    /\ root = <<>> /\ realm = <<>> /\ order = <<>>
    /\ op = "none" /\ node = <<>> /\ strict = FALSE /\ path = FALSE
    /\ phase = "done" /\ pending = <<>> /\ held = {} /\ scanned = <<>>
    /\ links = <<>> /\ result = NoPath /\ printed = <<>> /\ warnings = <<>>
    /\ fatal = FALSE

\* No stream is being scanned: the state of the scanner's variables under SpecRealm.
NoScan ==
    /\ stream = <<>> /\ rpos = 0 /\ filled = 0 /\ stage_two = FALSE
    /\ pc = "done" /\ idx = 0 /\ buf = <<>> /\ out = <<>> /\ ioerr = FALSE
    /\ resumed = FALSE

\* Bytes the exhaustive streams are made of: [ ] a
ScanBytes == {LBRACKET, RBRACKET, 97}

\* Bytes the link bodies are made of: a | # SPACE ] and 0xFF (never valid UTF-8)
BodyBytes == {97, PIPE, HASH, 32, RBRACKET, 255}

\* Bytes the bodies of two links in a row are made of: a # and 0xFF
PairBytes == {97, HASH, 255}

\* b wrapped in [[ and ]]
Wrap(b) == <<LBRACKET, LBRACKET>> \o b \o <<RBRACKET, RBRACKET>>

\* Two links in a row, with nothing or a space between them.
PairStreams ==
    {Wrap(b1) \o sep \o Wrap(b2) :
        b1 \in Strings(PairBytes, PairBody), b2 \in Strings(PairBytes, PairBody),
        sep \in {<<>>, <<32>>}}

Streams ==
    Strings(ScanBytes, MaxLen)
    \cup {Wrap(b) : b \in Strings(BodyBytes, MaxBody)}
    \cup PairStreams

\* read_wikilinks: a fresh BufReader at position 0 with an empty buffer.
InitScan ==
    /\ stream \in Streams
    /\ rpos = 0
    /\ filled = 0
    /\ stage_two = FALSE
    /\ pc = "skip"
    /\ idx = 0
    /\ buf = <<>>
    /\ out = <<>>
    /\ ioerr = FALSE
    /\ resumed = FALSE
    /\ NoRealm

\* SkipStep returning the place of the [ in the bytes it consumed last, not
\* the position in the stream.
SkipStepLocalOffset ==
    /\ pc = "skip"
    /\ \E f \in fill_buf(stream, rpos, filled) :
        LET it == SkipIter(SubSeq(stream, rpos + 1, f), stage_two)
        IN  /\ filled' = f
            /\ rpos' = rpos + it.used
            /\ IF it.eof
               THEN /\ pc' = "done"
                    /\ UNCHANGED <<stage_two, idx>>
               ELSE IF it.found
               THEN /\ pc' = "first"
                    /\ idx' = it.used - 1
                    /\ stage_two' = FALSE
               ELSE /\ pc' = "skip"
                    /\ stage_two' = it.on_chr
                    /\ UNCHANGED idx
    /\ UNCHANGED <<stream, buf, out, ioerr, resumed>>
    /\ UNCHANGED realmvars

\* One iteration of the loop of skip_to_opening_tag.
SkipStep ==
    /\ pc = "skip"
    /\ \E f \in fill_buf(stream, rpos, filled) :
        LET it == SkipIter(SubSeq(stream, rpos + 1, f), stage_two)
        IN  /\ filled' = f
            /\ rpos' = rpos + it.used
            /\ IF it.eof
               THEN /\ pc' = "done"
                    /\ UNCHANGED <<stage_two, idx>>
               ELSE IF it.found
               THEN /\ pc' = "first"
                    /\ idx' = (rpos + it.used) - 2
                    /\ stage_two' = FALSE
               ELSE /\ pc' = "skip"
                    /\ stage_two' = it.on_chr
                    /\ UNCHANGED idx
    /\ UNCHANGED <<stream, buf, out, ioerr, resumed>>
    /\ UNCHANGED realmvars

\* read_to_closing_tag's first read_until, into a fresh buf; its count is not
\* looked at.
CloseFirst ==
    /\ pc = "first"
    /\ LET it == CloseIter(stream, rpos, <<>>)
       IN  /\ buf' = it.buf
           /\ rpos' = rpos + it.read
           /\ filled' \in buffer_after(stream, filled, rpos + it.read)
    /\ pc' = "close"
    /\ UNCHANGED <<stream, stage_two, idx, out, ioerr, resumed>>
    /\ UNCHANGED realmvars

\* One iteration of the loop of read_to_closing_tag; on break, the two pops.
CloseStep ==
    /\ pc = "close"
    /\ LET it == CloseIter(stream, rpos, buf)
       IN  /\ rpos' = rpos + it.read
           /\ filled' \in buffer_after(stream, filled, rpos + it.read)
           /\ IF it.read = 1
              THEN /\ buf' = Pop(Pop(it.buf))
                   /\ pc' = "extract"
              ELSE IF it.read = 0
              THEN /\ buf' = it.buf
                   /\ pc' = "done"
              ELSE /\ buf' = it.buf
                   /\ pc' = "close"
    /\ UNCHANGED <<stream, stage_two, idx, out, ioerr, resumed>>
    /\ UNCHANGED realmvars

\* Extract returning None for a link whose target is empty.
ExtractEmptyEnds ==
    /\ pc = "extract"
    /\ LET r == extract_link_target(buf)
       IN  IF ~r.ok \/ r.tgt = <<>>
           THEN /\ pc' = "done"
                /\ out' = out
           ELSE /\ pc' = "skip"
                /\ out' = Append(out, <<idx, r.tgt>>)
    /\ UNCHANGED <<stream, rpos, filled, stage_two, idx, buf, ioerr, resumed>>
    /\ UNCHANGED realmvars

\* Extract going on to the next link after a body that is not valid UTF-8.
ExtractSkipsInvalid ==
    /\ pc = "extract"
    /\ LET r == extract_link_target(buf)
       IN  IF r.ok /\ r.tgt # <<>>
           THEN /\ pc' = "skip"
                /\ out' = Append(out, <<idx, r.tgt>>)
           ELSE /\ pc' = "skip"
                /\ out' = out
    /\ UNCHANGED <<stream, rpos, filled, stage_two, idx, buf, ioerr, resumed>>
    /\ UNCHANGED realmvars

\* extract_link_target and the rest of next_wikilink's loop body.
Extract ==
    /\ pc = "extract"
    /\ LET r == extract_link_target(buf)
       IN  IF ~r.ok
           THEN /\ pc' = "done"
                /\ out' = out
           ELSE IF r.tgt # <<>>
           THEN /\ pc' = "skip"
                /\ out' = Append(out, <<idx, r.tgt>>)
           ELSE /\ pc' = "skip"
                /\ out' = out
    /\ UNCHANGED <<stream, rpos, filled, stage_two, idx, buf, ioerr, resumed>>
    /\ UNCHANGED realmvars

\* A read of the underlying stream fails with an error other than Interrupted
\* (Interrupted is retried and changes nothing): skip_to_opening_tag or
\* read_until returns it and next_wikilink returns None.  A read happens when
\* the buffer is empty or, in read_until, holds no ] .
ReadError ==
    /\ \/ pc = "skip" /\ rpos = filled
       \/ /\ pc \in {"first", "close"}
          /\ memchr(RBRACKET, SubSeq(stream, rpos + 1, filled)) = NoIdx
    /\ filled < Len(stream)
    /\ pc' = "done"
    /\ ioerr' = TRUE
    /\ UNCHANGED <<stream, rpos, filled, stage_two, idx, buf, out, resumed>>
    /\ UNCHANGED realmvars

\* WikilinksIter::next called again after it returned None: next_wikilink
\* starts over on the same BufReader, where the last call left it.
NextCall ==
    /\ pc = "done"
    /\ pc' = "skip"
    /\ stage_two' = FALSE
    /\ resumed' = TRUE
    /\ UNCHANGED <<stream, rpos, filled, idx, buf, out, ioerr>>
    /\ UNCHANGED realmvars

NextScan ==
    SkipStep \/ CloseFirst \/ CloseStep \/ Extract \/ ReadError \/ NextCall

SpecScan == InitScan /\ [][NextScan]_vars

\* The scanner on a stream whose reads eventually succeed and whose consumer
\* keeps calling next: a step of the scanner that can be taken again and again
\* is taken in the end, however often a read fails in between.
InitScanLive ==
    /\ InitScan
    /\ stream \in Strings(ScanBytes, LiveLen) \cup PairStreams

SpecScanLive ==
    /\ InitScanLive
    /\ [][NextScan]_vars
    /\ SF_vars(SkipStep)
    /\ SF_vars(CloseFirst)
    /\ SF_vars(CloseStep)
    /\ WF_vars(Extract)
    /\ WF_vars(NextCall)

\* ------------------------------------------------------- the link commands

\* File names: a.md  A.TXT  b.md  and the directory names .h and b.org
name_a_md == <<97, 46, 109, 100>>
name_A_TXT == <<65, 46, 84, 88, 84>>
name_b_md == <<98, 46, 109, 100>>
name_dot_h == <<46, 104>>
name_b_org == <<98, 46, 111, 114, 103>>

\* The paths a realm of the model is made of: three files in the root, a file
\* in a hidden directory, and a directory whose name has a supported extension.
PathUniverse ==
    { <<name_a_md>>, <<name_A_TXT>>, <<name_b_md>>, <<name_dot_h, name_a_md>>,
      <<name_b_org>> }

\* What can be in a realm: a directory (it opens, and fails its first read), a
\* file that opens, a file that does not (its content is never read).  scans
\* is what read_wikilinks can produce from the entry once it is opened.
Entries ==
    {[kind |-> "dir", content |-> <<>>, openable |-> TRUE, scans |-> {<<>>}]}
    \cup {[kind |-> "file", content |-> c, openable |-> TRUE,
           scans |-> FileScans(c)] : c \in Docs}
    \cup {[kind |-> "file", content |-> <<>>, openable |-> FALSE, scans |-> {}]}

\* What can be at the path p: b.org is the directory; one content is enough for
\* the file of the hidden directory.
EntryStates(p, e) ==
    /\ e.kind = "dir" <=> p = <<name_b_org>>
    /\ p = <<name_dot_h, name_a_md>>
        => e.openable /\ e.content = <<91, 91, 65, 93, 93, 91, 91, 97, 93, 93>>

Realms ==
    UNION { {r \in [S -> Entries] : \A p \in S : EntryStates(p, r[p])} :
            S \in {T \in SUBSET PathUniverse : Cardinality(T) <= MaxFiles} }

\* The orders in which a directory walk can come by the paths of S.
Orders(S) ==
    {o \in [1..Cardinality(S) -> S] : \A i, j \in 1..Cardinality(S) : i # j => o[i] # o[j]}

\* Root directory names: r and .r
Roots == {<<114>>, <<46, 114>>}

\* Node names asked for: a and B
Nodes == {<<97>>, <<66>>}

InitRealm ==
    /\ root \in Roots
    /\ realm \in Realms
    /\ order \in Orders(DOMAIN realm)
    /\ node \in Nodes
    /\ op \in {"resolve", "remove", "backlinks", "forwardlinks", "links"}
    /\ strict \in IF op = "resolve" THEN BOOLEAN ELSE {op = "remove"}
    /\ path \in IF op = "resolve" THEN {FALSE} ELSE BOOLEAN
    /\ phase = "start"
    /\ pending = <<>>
    /\ held = {}
    /\ scanned = <<>>
    /\ links = <<>>
    /\ result = NoPath
    /\ printed = <<>>
    /\ warnings = <<>>
    /\ fatal = FALSE
    /\ NoScan

\* The warnings of one find_node_once call added to the warn! messages so far.
WithWarning(ws, r, nd) ==
    IF r.warned THEN Append(ws, [msg |-> "multiple paths", name |-> nd]) ELSE ws

\* A caller of find_node_once(root, node, strict) that goes on with its result:
\* remove_node with strict, path_to_node and the others without.
Resolve ==
    /\ op = "resolve"
    /\ phase = "start"
    /\ LET r == find_node_once(root, realm, order, node, strict)
       IN  /\ fatal' = r.fatal
           /\ warnings' = WithWarning(warnings, r, node)
           /\ result' = IF r.fatal THEN NoPath ELSE r.result
           /\ phase' = IF r.fatal THEN "exit" ELSE "done"
    /\ UNCHANGED <<root, realm, order, op, node, strict, path, pending, held,
                   scanned, links, printed>>
    /\ UNCHANGED scanvars

\* remove_node: find_node_once(root, node, true), then fs::remove_file of the
\* path it gave, which either removes that file or fails and ends in error! .
Remove ==
    /\ op = "remove"
    /\ phase = "start"
    /\ LET r == find_node_once(root, realm, order, node, TRUE)
       IN  /\ result' = IF r.fatal THEN NoPath ELSE r.result
           /\ IF r.fatal
              THEN /\ fatal' = TRUE
                   /\ phase' = "exit"
                   /\ warnings' = warnings
                   /\ realm' = realm
              ELSE IF r.result = NoPath
              THEN /\ fatal' = FALSE
                   /\ phase' = "done"
                   /\ warnings' = Append(WithWarning(warnings, r, node),
                                         [msg |-> "node does not exist", name |-> node])
                   /\ realm' = realm
              ELSE /\ warnings' = WithWarning(warnings, r, node)
                   /\ \/ /\ realm' = [p \in DOMAIN realm \ {r.result} |-> realm[p]]
                         /\ fatal' = FALSE
                         /\ phase' = "done"
                      \/ /\ realm' = realm
                         /\ fatal' = TRUE
                         /\ phase' = "exit"
    /\ UNCHANGED <<root, order, op, node, strict, path, pending, held, scanned,
                   links, printed>>
    /\ UNCHANGED scanvars

\* list_backlinks is entered (after list_links' first header): realm_walker
\* makes the iterator that par_bridge hands out.
BackStart ==
    /\ op \in {"backlinks", "links"}
    /\ phase = "start"
    /\ printed' = IF op = "links"
                  THEN Append(printed, [kind |-> "header_back", file |-> NoPath,
                                        text |-> <<>>])
                  ELSE printed
    /\ pending' = realm_walker(root, order)
    /\ phase' = "back"
    /\ UNCHANGED <<root, realm, order, op, node, strict, path, held, scanned,
                   links, result, warnings, fatal>>
    /\ UNCHANGED scanvars

\* BackTake putting the path where the pool keeps a single path in flight.
BackTakeOverwrite ==
    /\ phase = "back"
    /\ Cardinality(held) < NumWorkers
    /\ pending # <<>>
    /\ held' = {Head(pending)}
    /\ pending' = Tail(pending)
    /\ UNCHANGED <<root, realm, order, op, node, strict, path, phase, scanned,
                   links, result, printed, warnings, fatal>>
    /\ UNCHANGED scanvars

\* A free worker of the pool takes the iterator's next path.
BackTake ==
    /\ phase = "back"
    /\ Cardinality(held) < NumWorkers
    /\ pending # <<>>
    /\ held' = held \cup {Head(pending)}
    /\ pending' = Tail(pending)
    /\ UNCHANGED <<root, realm, order, op, node, strict, path, phase, scanned,
                   links, result, printed, warnings, fatal>>
    /\ UNCHANGED scanvars

\* The line list_backlinks prints for a path: println_path, or println_node.
BacklinkLine(bl) ==
    [kind |-> "backlink", file |-> bl,
     text |-> IF path THEN bl ELSE <<file_stem(bl[Len(bl)])>>]

\* BackProcess with a failed File::open ending the process.
BackProcessOpenFatal(bl) ==
    /\ phase = "back"
    /\ bl \in held
    /\ IF ~realm[bl].openable
       THEN /\ fatal' = TRUE
            /\ phase' = "exit"
            /\ UNCHANGED <<scanned, printed>>
       ELSE /\ UNCHANGED <<fatal, phase>>
            /\ \E occ \in ScanOutcomes(realm[bl]) :
                /\ scanned' = (bl :> occ) @@ scanned
                /\ printed' =
                     IF \E l \in Targets(occ) : eq_ignore_ascii_case(node, l)
                     THEN Append(printed, BacklinkLine(bl))
                     ELSE printed
    /\ held' = held \ {bl}
    /\ UNCHANGED <<root, realm, order, op, node, strict, path, pending,
                   links, result, warnings>>
    /\ UNCHANGED scanvars

\* The worker that took bl runs the filter closure on it and, if it holds, the
\* for_each closure.
BackProcess(bl) ==
    /\ phase = "back"
    /\ bl \in held
    /\ IF ~realm[bl].openable
       THEN UNCHANGED <<scanned, printed>>
       ELSE \E occ \in ScanOutcomes(realm[bl]) :
                /\ scanned' = (bl :> occ) @@ scanned
                /\ printed' =
                     IF \E l \in Targets(occ) : eq_ignore_ascii_case(node, l)
                     THEN Append(printed, BacklinkLine(bl))
                     ELSE printed
    /\ held' = held \ {bl}
    /\ UNCHANGED <<root, realm, order, op, node, strict, path, phase, pending,
                   links, result, warnings, fatal>>
    /\ UNCHANGED scanvars

\* BackEnd not waiting for the workers that still hold a path.
BackEndEarly ==
    /\ phase = "back"
    /\ pending = <<>>
    /\ phase' = IF op = "links" THEN "fwd" ELSE "done"
    /\ printed' = IF op = "links"
                  THEN Append(printed, [kind |-> "header_fwd", file |-> NoPath,
                                        text |-> <<>>])
                  ELSE printed
    /\ UNCHANGED <<root, realm, order, op, node, strict, path, pending, held,
                   scanned, links, result, warnings, fatal>>
    /\ UNCHANGED scanvars

\* for_each returns once the iterator is drained and every worker is done;
\* list_links goes on with its second header and list_forwardlinks.
BackEnd ==
    /\ phase = "back"
    /\ pending = <<>>
    /\ held = {}
    /\ phase' = IF op = "links" THEN "fwd" ELSE "done"
    /\ printed' = IF op = "links"
                  THEN Append(printed, [kind |-> "header_fwd", file |-> NoPath,
                                        text |-> <<>>])
                  ELSE printed
    /\ UNCHANGED <<root, realm, order, op, node, strict, path, pending, held,
                   scanned, links, result, warnings, fatal>>
    /\ UNCHANGED scanvars

\* list_forwardlinks: find_node_once(root, node, false).
FwdFind ==
    /\ (op = "forwardlinks" /\ phase = "start") \/ phase = "fwd"
    /\ LET r == find_node_once(root, realm, order, node, FALSE)
       IN  /\ fatal' = r.fatal
           /\ warnings' = WithWarning(warnings, r, node)
           /\ result' = IF r.fatal THEN NoPath ELSE r.result
           /\ phase' = IF r.fatal THEN "exit"
                       ELSE IF r.result = NoPath THEN "done"
                       ELSE "fwd_open"
    /\ UNCHANGED <<root, realm, order, op, node, strict, path, pending, held,
                   scanned, links, printed>>
    /\ UNCHANGED scanvars

\* list_forwardlinks: File::open, error! when it fails; else the targets
\* read_wikilinks gives, collected into a BTreeSet<String>.
FwdOpen ==
    /\ phase = "fwd_open"
    /\ IF ~realm[result].openable
       THEN /\ fatal' = TRUE
            /\ phase' = "exit"
            /\ links' = links
       ELSE \E occ \in ScanOutcomes(realm[result]) :
                /\ links' = BTreeSetIter(Targets(occ))
                /\ phase' = IF Targets(occ) = {} THEN "done" ELSE "fwd_items"
                /\ fatal' = fatal
    /\ UNCHANGED <<root, realm, order, op, node, strict, path, pending, held,
                   scanned, result, printed, warnings>>
    /\ UNCHANGED scanvars

\* One iteration of list_forwardlinks' loop over the set: the link's name, or
\* with path the file find_node_once(root, link, false) gives for it.
FwdItem ==
    /\ phase = "fwd_items"
    /\ links # <<>>
    /\ LET link == Head(links)
           r == find_node_once(root, realm, order, link, FALSE)
       IN  IF ~path
           THEN /\ printed' = Append(printed, [kind |-> "forwardlink", file |-> NoPath,
                                               text |-> <<link>>])
                /\ warnings' = warnings
                /\ fatal' = fatal
                /\ phase' = IF Tail(links) = <<>> THEN "done" ELSE "fwd_items"
           ELSE /\ fatal' = r.fatal
                /\ printed' =
                     IF r.result # NoPath /\ ~r.fatal
                     THEN Append(printed, [kind |-> "forwardlink", file |-> r.result,
                                           text |-> r.result])
                     ELSE printed
                /\ warnings' =
                     IF r.result # NoPath \/ r.fatal THEN WithWarning(warnings, r, link)
                     ELSE Append(warnings, [msg |-> "no file found", name |-> link])
                /\ phase' = IF r.fatal THEN "exit"
                            ELSE IF Tail(links) = <<>> THEN "done"
                            ELSE "fwd_items"
    /\ links' = Tail(links)
    /\ UNCHANGED <<root, realm, order, op, node, strict, path, pending, held,
                   scanned, result>>
    /\ UNCHANGED scanvars

NextRealm ==
    \/ Resolve
    \/ Remove
    \/ BackStart
    \/ BackTake
    \/ \E bl \in PathUniverse : BackProcess(bl)
    \/ BackEnd
    \/ FwdFind
    \/ FwdOpen
    \/ FwdItem

SpecRealm == InitRealm /\ [][NextRealm]_vars

\* ------------------------------------------------- claims about the scanner

\* The scan ran to next's first None with every read succeeding.
ScanEnded == pc = "done" /\ ~ioerr /\ ~resumed

\* 1-based position of the first ] that is immediately followed by another ]
\* among the bytes of s after its first `from` bytes; 0 when there is none.
FirstClose(s, from) ==
    LET P == {j \in (from + 1)..(Len(s) - 1) : s[j] = RBRACKET /\ s[j + 1] = RBRACKET}
    IN  IF P = {} THEN 0 ELSE CHOOSE j \in P : \A q \in P : j <= q

\* C1: chunk-boundary invariance.  However the stream is delivered to the
\* BufReader, a scan that runs to its end yields the sequence of
\* (offset, target) occurrences that it yields when the whole stream arrives
\* in one read.
C1_ChunkInvariance ==
    ScanEnded => out = read_wikilinks(stream, BUF_CAPACITY)

\* C2: an unterminated link yields nothing.  Every occurrence yielded for an
\* opening [[ has two immediately adjacent ] somewhere after that opening tag.
C2_UnterminatedYieldsNothing ==
    \A n \in 1..Len(out) :
        LET o == out[n][1]
        IN  (stream[o + 1] = LBRACKET /\ stream[o + 2] = LBRACKET)
                => FirstClose(stream, o + 2) # 0

\* t is b cut at its first | or # and stripped of ASCII whitespace at both
\* ends, said without computing it: b is some whitespace, t, some whitespace,
\* and then either nothing or a | or # .
IsTargetOf(t, b) ==
    \E c \in 0..Len(b) :
        /\ c = Len(b) \/ b[c + 1] \in {PIPE, HASH}
        /\ \A j \in 1..c : b[j] \notin {PIPE, HASH}
        /\ \E a \in 0..c :
            /\ a + Len(t) <= c
            /\ t = SubSeq(b, a + 1, a + Len(t))
            /\ \A j \in 1..a : b[j] \in AsciiWhitespace
            /\ \A j \in (a + Len(t) + 1)..c : b[j] \in AsciiWhitespace
            /\ t # <<>> => (t[1] \notin AsciiWhitespace
                            /\ t[Len(t)] \notin AsciiWhitespace)

\* C3: target normalization.  When next_wikilink has the body of a link, it
\* yields at most one occurrence; the target it yields is the body cut at its
\* first | or # and trimmed of ASCII whitespace, and is not empty; and a body
\* whose normalized target is empty yields nothing.
C3_TargetNormalization ==
    [][pc = "extract" =>
        /\ out' = out \/ /\ out' = Append(out, <<idx, out'[Len(out')][2]>>)
                         /\ out'[Len(out')][2] # <<>>
                         /\ IsTargetOf(out'[Len(out')][2], buf)
        /\ IsTargetOf(<<>>, buf) => out' = out
        /\ (IsUtf8(buf) /\ ~IsTargetOf(<<>>, buf)) => out' # out]_vars

\* C3's case: the body a|a has been read and the target a yielded for it.
C3_Witness ==
    /\ pc = "skip"
    /\ buf = <<97, PIPE, 97>>
    /\ out = <<<<0, <<97>>>>>>

\* C4: a lone ] is content.  When read_to_closing_tag returns a body, two
\* immediately adjacent ] follow the opening tag, the body is every byte
\* between the opening tag and the first such pair, and the reader stands right
\* after that pair.
C4_LoneBracketIsContent ==
    pc = "extract" =>
        LET j == FirstClose(stream, idx + 2)
        IN  /\ j # 0
            /\ buf = SubSeq(stream, idx + 3, j - 1)
            /\ rpos = j + 1

\* --------------------------------------------- claims about the link commands

\* a and b are the same bytes up to the case of ASCII letters.
SameFolded(a, b) ==
    /\ Len(a) = Len(b)
    /\ \A i \in 1..Len(a) :
        \/ a[i] = b[i]
        \/ a[i] \in 65..90 /\ b[i] = a[i] + 32
        \/ a[i] \in 97..122 /\ b[i] = a[i] - 32

\* name is stem.ext with a non-empty stem and no . in ext
SplitsAs(name, stem, ext) ==
    /\ stem # <<>>
    /\ name = stem \o <<DOT>> \o ext
    /\ \A i \in 1..Len(ext) : ext[i] # DOT

\* p is enumerated under the root: neither the root's name nor a component of
\* p starts with a . , and p's extension is one of the supported ones.
Enumerated(p) ==
    /\ p \in DOMAIN realm
    /\ root[1] # DOT
    /\ \A i \in 1..Len(p) : p[i][1] # DOT
    /\ \E e \in SUPPORTED_EXTS, k \in 1..Len(p[Len(p)]) :
            /\ Len(e) = Len(p[Len(p)]) - k
            /\ SameFolded(e, SubSeq(p[Len(p)], k + 1, Len(p[Len(p)])))
            /\ SplitsAs(p[Len(p)], SubSeq(p[Len(p)], 1, k - 1),
                        SubSeq(p[Len(p)], k + 1, Len(p[Len(p)])))

\* p is a backing file of the node named X.
IsBackingFile(p, X) ==
    /\ Enumerated(p)
    /\ realm[p].kind = "file"
    /\ \E k \in 1..Len(p[Len(p)]) :
            /\ SameFolded(X, SubSeq(p[Len(p)], 1, k - 1))
            /\ SplitsAs(p[Len(p)], SubSeq(p[Len(p)], 1, k - 1),
                        SubSeq(p[Len(p)], k + 1, Len(p[Len(p)])))

\* list_backlinks has returned.
BackDone == op \in {"backlinks", "links"} /\ phase \notin {"start", "back"}

\* The files list_backlinks has reported.
BacklinkFiles ==
    {printed[i].file : i \in {j \in 1..Len(printed) : printed[j].kind = "backlink"}}

\* The scanner's run on p produced a target that is X up to ASCII case.
ScanNames(p, X) ==
    /\ p \in DOMAIN scanned
    /\ \E i \in 1..Len(scanned[p]) : SameFolded(scanned[p][i][2], X)

\* C5: back-link qualification.  When Back-links has returned, the files it
\* reported are exactly those that are enumerated under the root, could be
\* opened, and for which the scanner's run produced at least one target equal
\* to the node name up to ASCII case; every reported file is reported once.
\* In particular, with a.md holding [[b]] and read in full, Back-links(B)
\* reports a.md, and Back-links(a) does not report a b.md that holds [[b]].
C5_BacklinkQualification ==
    BackDone =>
        /\ \A p \in PathUniverse :
                p \in BacklinkFiles
                    <=> (Enumerated(p) /\ realm[p].openable /\ ScanNames(p, node))
        /\ \A i, j \in 1..Len(printed) :
                (printed[i].kind = "backlink" /\ printed[i] = printed[j]) => i = j
        /\ ( /\ Enumerated(<<name_a_md>>)
             /\ realm[<<name_a_md>>].content = <<91, 91, 98, 93, 93>>
             /\ realm[<<name_a_md>>].openable
             /\ scanned[<<name_a_md>>] = <<<<0, <<98>>>>>>
             /\ node = <<66>> ) => <<name_a_md>> \in BacklinkFiles
        /\ ( /\ <<name_b_md>> \in DOMAIN realm
             /\ realm[<<name_b_md>>].content = <<91, 91, 98, 93, 93>>
             /\ node = <<97>> ) => <<name_b_md>> \notin BacklinkFiles

\* C5's case: Back-links(B) has returned with a.md, which holds [[b]], reported,
\* beside a b.md that holds no link to a.
C5_Witness ==
    /\ op = "backlinks" /\ phase = "done"
    /\ node = <<66>>
    /\ <<name_a_md>> \in DOMAIN realm /\ <<name_b_md>> \in DOMAIN realm
    /\ realm[<<name_a_md>>].content = <<91, 91, 98, 93, 93>>
    /\ realm[<<name_b_md>>].content = <<91, 91, 98, 93, 93>>
    /\ <<name_a_md>> \in BacklinkFiles

\* C6: forward-links are unique up to ASCII case.  No two lines that
\* Forward-links reports carry target names, or paths, that are equal after
\* ASCII case-folding.
C6_ForwardlinksUniqueFolded ==
    \A i, j \in 1..Len(printed) :
        ( /\ printed[i].kind = "forwardlink" /\ printed[j].kind = "forwardlink"
          /\ Len(printed[i].text) = Len(printed[j].text)
          /\ \A k \in 1..Len(printed[i].text) :
                SameFolded(printed[i].text[k], printed[j].text[k]) )
        => i = j

MatchPlaces(X) == {i \in 1..Len(order) : IsBackingFile(order[i], X)}

\* C8: ambiguity in find_node_once.  With more than one backing file for the
\* name, a strict call is fatal and gives no path, and a non-strict call warns
\* once and gives the first of them in enumeration order; with exactly one,
\* that one and no warning; with none, None and no warning.
C8_AmbiguityHandling ==
    (op = "resolve" /\ phase # "start") =>
        LET M == MatchPlaces(node)
            first == CHOOSE i \in M : \A j \in M : i <= j
        IN  /\ (Cardinality(M) >= 2 /\ strict)
                => fatal /\ phase = "exit" /\ result = NoPath
            /\ (Cardinality(M) >= 2 /\ ~strict)
                => /\ ~fatal /\ phase = "done"
                   /\ result = order[first]
                   /\ warnings = <<[msg |-> "multiple paths", name |-> node]>>
            /\ Cardinality(M) = 1
                => /\ ~fatal /\ phase = "done"
                   /\ result = order[first]
                   /\ warnings = <<>>
            /\ M = {}
                => /\ ~fatal /\ phase = "done"
                   /\ result = NoPath
                   /\ warnings = <<>>

\* C8's case: a.md and A.TXT both back the node a; the non-strict call has
\* warned and returned the one the walk came by first, here A.TXT.
C8_Witness ==
    /\ op = "resolve" /\ phase = "done" /\ ~strict
    /\ node = <<97>>
    /\ order = <<<<name_A_TXT>>, <<name_a_md>>>>
    /\ realm[<<name_a_md>>].kind = "file"
    /\ result = <<name_A_TXT>>
    /\ warnings # <<>>

\* The byte b with its case changed, if it is an ASCII letter.
FlipCase(b) ==
    IF b \in 65..90 THEN b + 32 ELSE IF b \in 97..122 THEN b - 32 ELSE b

\* The names that differ from n in the case of ASCII letters only.
CaseVariants(n) ==
    {[i \in 1..Len(n) |-> IF i \in S THEN FlipCase(n[i]) ELSE n[i]] :
        S \in SUBSET (1..Len(n))} \ {n}

\* The elements of a sequence.
Range(s) == {s[i] : i \in 1..Len(s)}

\* C9: name matching is ASCII case-insensitive.  For the node name given and
\* every name that differs from it only in letter case: find_node gives the
\* same backing files and the resolution that ran returned what it returns for
\* the other name; and the files Back-links reported are those it reports for
\* the other name from the same scans.
C9_CaseInsensitiveNames ==
    \A v \in CaseVariants(node) :
        /\ (op = "resolve" /\ phase = "done")
            => /\ find_node(root, realm, order, v) = find_node(root, realm, order, node)
               /\ result = find_node_once(root, realm, order, v, strict).result
        /\ BackDone
            => BacklinkFiles =
                 {p \in Range(realm_walker(root, order)) :
                    /\ realm[p].openable
                    /\ \E i \in 1..Len(scanned[p]) :
                            eq_ignore_ascii_case(v, scanned[p][i][2])}

\* C9's case: Back-links(B) has returned in a realm where b.md backs the node;
\* it reported a file whose only link is [[b]].
C9_Witness ==
    /\ op = "backlinks" /\ phase = "done"
    /\ node = <<66>>
    /\ find_node(root, realm, order, node) = <<<<name_b_md>>>>
    /\ \E p \in BacklinkFiles : scanned[p] = <<<<0, <<98>>>>>>

\* C10: a file that fails to open during Back-links is left out and does not
\* abort the query.  Back-links is never fatal; no file that cannot be opened
\* is scanned or reported; and the files reported are those that are reported
\* from the same scans when the walk does not come by the unopenable files at
\* all, each of those having been scanned.
C10_UnopenableExcluded ==
    /\ phase = "back" => ~fatal
    /\ (op = "backlinks" /\ BackDone) => (phase = "done" /\ ~fatal)
    /\ BackDone =>
        LET Opens(p) == realm[p].openable
            others == Range(realm_walker(root, SelectSeq(order, Opens)))
        IN  /\ \A p \in DOMAIN realm :
                    ~realm[p].openable => (p \notin BacklinkFiles /\ p \notin DOMAIN scanned)
            /\ \A p \in others :
                    p \in DOMAIN scanned /\ scanned[p] \in ScanOutcomes(realm[p])
            /\ BacklinkFiles = {p \in others : ScanNames(p, node)}

\* C10's case: Back-links has returned, having come by a file that cannot be
\* opened and having reported another.
C10_Witness ==
    /\ op = "backlinks" /\ phase = "done"
    /\ \E p \in DOMAIN realm : Enumerated(p) /\ ~realm[p].openable
    /\ BacklinkFiles # {}

\* ------------------------------------ further claims about the scanner

\* Two adjacent [ stand at the 0-based offset o of s.
PairAt(s, o) ==
    o + 2 <= Len(s) /\ s[o + 1] = LBRACKET /\ s[o + 2] = LBRACKET

\* C11: the reported offset is that of the first of two adjacent [ .  The
\* offset skip_to_opening_tag returns, and the offset of every occurrence
\* yielded, is a position where two [ stand side by side; and when the search
\* started at the head of the stream (no call was resumed, no ] lies before
\* the offset) no such pair stands before it.
C11_OffsetAtOpeningTag ==
    /\ \A n \in 1..Len(out) : PairAt(stream, out[n][1])
    /\ pc = "first" =>
        /\ PairAt(stream, idx)
        /\ (~resumed /\ \A j \in 1..idx : stream[j] # RBRACKET)
                => \A o \in 0..(idx - 1) : ~PairAt(stream, o)

\* C12: offsets are strictly increasing within one scan.  Of any two
\* occurrences yielded from a stream, calls after a None included, the later
\* one has the greater offset.
C12_OffsetsIncrease ==
    \A m, n \in 1..Len(out) : m < n => out[m][1] < out[n][1]

\* C12's case: [[a]][[a]] has yielded its two occurrences, at 0 and at 5.
C12_Witness ==
    /\ stream = Wrap(<<97>>) \o Wrap(<<97>>)
    /\ out = <<<<0, <<97>>>>, <<5, <<97>>>>>>

\* b is the body of an internal link: cut and trimmed, nothing is left of it.
IsInternal(b) == IsTargetOf(<<>>, b)

\* C16: internal links are skipped without ending the scan.  When the body of
\* a well-formed link normalizes to the empty target, nothing is yielded for
\* it and a fresh search for an opening tag goes on right after its ]] ; and
\* of two links in a row, the first internal and the second with a target,
\* the scan yields exactly the second.
C16_InternalLinksSkipped ==
    /\ [][(/\ pc = "extract"
           /\ PairAt(stream, idx)
           /\ FirstClose(stream, idx + 2) # 0
           /\ IsInternal(buf))
          => /\ out' = out
             /\ pc' = "skip"
             /\ stage_two' = FALSE
             /\ rpos' = FirstClose(stream, idx + 2) + 1]_vars
    /\ [](ScanEnded =>
            \A b1, b2 \in Strings(PairBytes, PairBody), sep \in {<<>>, <<32>>} :
                ( /\ stream = Wrap(b1) \o sep \o Wrap(b2)
                  /\ IsInternal(b1)
                  /\ ~IsInternal(b2)
                  /\ \A i \in 1..Len(b2) : b2[i] < 128 )
                => /\ Len(out) = 1
                   /\ out[1][1] = Len(b1) + 4 + Len(sep)
                   /\ IsTargetOf(out[1][2], b2))

\* C16's case: [[#]] [[a]] has been scanned to its end and has yielded the one
\* occurrence of a, at 6.
C16_Witness ==
    /\ stream = Wrap(<<HASH>>) \o <<32>> \o Wrap(<<97>>)
    /\ ScanEnded
    /\ out = <<<<6, <<97>>>>>>

\* C17 as stated: when the bytes accumulated for a link body are not valid
\* UTF-8, nothing is yielded for the link and next returns None.
C17_InvalidBodyEndsExtraction ==
    [][(pc = "extract" /\ ~IsUtf8(buf)) => (out' = out /\ pc' = "done")]_vars

\* The target that b normalizes to is not valid UTF-8.
TargetInvalid(b) ==
    \E i \in 1..Len(b), j \in 1..Len(b) :
        IsTargetOf(SubSeq(b, i, j), b) /\ ~IsUtf8(SubSeq(b, i, j))

\* C17, amended: it is the normalized target that has to be valid UTF-8 (bytes
\* after the first | or # are dropped unseen).  When it is not, nothing is
\* yielded for the link and next returns None; and of two links in a row, the
\* first with such a target, a consumer that stops at the first None, as
\* Forward-links and Back-links do, gets no occurrence at all.
C17_InvalidTargetEndsExtraction ==
    /\ [][(pc = "extract" /\ TargetInvalid(buf))
            => (out' = out /\ pc' = "done")]_vars
    /\ []((pc = "done" /\ ~resumed) =>
            \A b1, b2 \in Strings(PairBytes, PairBody), sep \in {<<>>, <<32>>} :
                (stream = Wrap(b1) \o sep \o Wrap(b2) /\ TargetInvalid(b1))
                => (out = <<>> /\ FileScans(stream) = {<<>>}))

\* C17's case: in [[\xFF]][[a]] next has returned None right after the first
\* link, with nothing yielded and the second link unread.
C17_Witness ==
    /\ stream = Wrap(<<255>>) \o Wrap(<<97>>)
    /\ pc = "done" /\ ~resumed /\ ~ioerr
    /\ rpos = 5
    /\ out = <<>>

\* The stream is used up and no link is being read.
Drained == rpos = Len(stream) /\ pc \in {"done", "skip"}

\* C19: the scan is finite and always terminates.  The reader only moves
\* forward; at most n/4 occurrences are yielded from n bytes; once the stream
\* is used up every call returns None, with nothing yielded; and when reads
\* succeed in the end, every call returns, None is returned again and again,
\* and the stream is used up for good after finitely many steps.
C19_ScanTerminates ==
    /\ [][rpos' >= rpos]_vars
    /\ [](4 * Len(out) <= Len(stream))
    /\ [][Drained => (Drained' /\ out' = out)]_vars
    /\ []<>(pc = "done")
    /\ <>[]Drained

\* C19's case: [[a]][[a]] is used up, both occurrences yielded, None returned,
\* and next called at least once more.
C19_Witness ==
    /\ stream = Wrap(<<97>>) \o Wrap(<<97>>)
    /\ Len(out) = 2
    /\ rpos = Len(stream)
    /\ pc = "done"
    /\ resumed

\* ------------------------------------ further claims about the commands

\* C20: remove_node deletes nothing when the name is ambiguous or unmatched.
\* With two or more backing files for the name it ends in the fatal condition
\* and the realm is as it was; with none it warns and the realm is as it was;
\* with exactly one, either that file is gone and every other entry is as it
\* was, or its removal failed, which is fatal and leaves the realm as it was.
\* No other command changes the realm.
C20_RemoveOnlyTheOneMatch ==
    [][/\ op # "remove" => realm' = realm
       /\ (op = "remove" /\ phase = "start") =>
            LET M == MatchPlaces(node)
                the == order[CHOOSE i \in M : TRUE]
            IN  /\ Cardinality(M) >= 2
                    => fatal' /\ phase' = "exit" /\ realm' = realm
                /\ M = {}
                    => /\ ~fatal' /\ phase' = "done" /\ realm' = realm
                       /\ warnings' = <<[msg |-> "node does not exist",
                                         name |-> node]>>
                /\ Cardinality(M) = 1
                    => \/ fatal' /\ phase' = "exit" /\ realm' = realm
                       \/ /\ ~fatal' /\ phase' = "done"
                          /\ DOMAIN realm' = DOMAIN realm \ {the}
                          /\ \A p \in DOMAIN realm' : realm'[p] = realm[p]
                          /\ warnings' = <<>>]_vars

\* C20's case: of the two files the walk came by, remove_node has removed the
\* one that backs the node and left the other.
C20_Witness ==
    /\ op = "remove" /\ phase = "done" /\ ~fatal
    /\ Len(order) = 2
    /\ result \in Range(order)
    /\ DOMAIN realm = Range(order) \ {result}

\* The line at place i of the output belongs to the Forward-links half.
IsForwardHalf(i) == printed[i].kind \in {"header_fwd", "forwardlink"}

\* C13: Links emits the whole Back-links result and only then the
\* Forward-links result.  No back-link line comes after a line of the
\* forward half; while a line of the forward half is out, no path is waiting
\* or in a worker's hands and every enumerated file that opens has been
\* scanned; the output only grows at its end; and every target of the
\* forward set gets its line, whatever the back-link lines are.
C13_LinksBackThenForward ==
    /\ [](op = "links" =>
            /\ \A i, j \in 1..Len(printed) :
                    (i < j /\ IsForwardHalf(i)) => printed[j].kind # "backlink"
            /\ (\E i \in 1..Len(printed) : IsForwardHalf(i))
                    => /\ pending = <<>> /\ held = {}
                       /\ \A p \in DOMAIN realm :
                            (Enumerated(p) /\ realm[p].openable)
                                => p \in DOMAIN scanned)
    /\ [][op = "links" =>
            /\ \/ printed' = printed
               \/ /\ Len(printed') = Len(printed) + 1
                  /\ SubSeq(printed', 1, Len(printed)) = printed
            /\ (phase = "fwd_items" /\ ~path)
                    => printed' = Append(printed,
                                         [kind |-> "forwardlink", file |-> NoPath,
                                          text |-> <<Head(links)>>])]_vars

\* C13's case: Links with paths has ended; one file stands in the back-link
\* list and, after it, in the forward-link list.
C13_Witness ==
    /\ op = "links" /\ phase = "done" /\ path
    /\ \E i, j \in 1..Len(printed) :
            /\ i < j
            /\ printed[i].kind = "backlink"
            /\ printed[j].kind = "forwardlink"
            /\ printed[i].file = printed[j].file

\* The occurrences a scan of content c yields when no read fails.
FullScans(c) == {read_wikilinks(c, 1), read_wikilinks(c, BUF_CAPACITY)}

\* C14: the queries are idempotent.  What a query returns depends on the
\* realm, the root and the name alone: when no read failed, Back-links
\* reports the files whose content, read in one piece, links to the node; and
\* the file Forward-links resolves a target to is the same for every order in
\* which the walk can come by the files.
C14_QueriesRepeatable ==
    /\ (op = "backlinks" /\ phase = "done"
            /\ \A p \in DOMAIN scanned : scanned[p] \in FullScans(realm[p].content))
        => BacklinkFiles =
             {p \in DOMAIN realm :
                /\ Enumerated(p) /\ realm[p].openable
                /\ LET whole == read_wikilinks(realm[p].content, BUF_CAPACITY)
                   IN  \E i \in 1..Len(whole) : SameFolded(whole[i][2], node)}
    /\ (op = "forwardlinks" /\ phase = "fwd_items" /\ path)
        => \A o \in Orders(DOMAIN realm) :
                find_node_once(root, realm, o, Head(links), FALSE).result
                    = find_node_once(root, realm, order, Head(links), FALSE).result

\* C15: realm_walker's enumeration.  What list_backlinks gets from
\* realm_walker is exactly the files of the realm that have a supported
\* extension and no name starting with . on the way down to them: no
\* directory, nothing below a hidden directory, no other extension.
C15_EnumerationContract ==
    (op \in {"backlinks", "links"} /\ phase = "back"
        /\ held = {} /\ DOMAIN scanned = {})
    => Range(pending) = {p \in DOMAIN realm : Enumerated(p) /\ realm[p].kind = "file"}

\* C18: Back-links under the worker pool.  A path is in one place at a time
\* (waiting, held by one worker, or done); a file is never reported twice and
\* never without its scan naming the node; and when Back-links returns every
\* enumerated file that opens has been scanned and every one whose scan names
\* the node has been reported, whatever the schedule was.
C18_ParallelBacklinks ==
    op \in {"backlinks", "links"} =>
        /\ phase = "back" =>
            /\ Cardinality(held) <= NumWorkers
            /\ held \cap Range(pending) = {}
            /\ (held \cup Range(pending)) \cap DOMAIN scanned = {}
            /\ \A i, j \in 1..Len(pending) : pending[i] = pending[j] => i = j
        /\ \A i, j \in 1..Len(printed) :
                ( /\ printed[i].kind = "backlink" /\ printed[j].kind = "backlink"
                  /\ printed[i].file = printed[j].file ) => i = j
        /\ \A i \in 1..Len(printed) :
                printed[i].kind = "backlink" => ScanNames(printed[i].file, node)
        /\ BackDone =>
            \A p \in DOMAIN realm :
                (Enumerated(p) /\ realm[p].openable)
                    => /\ p \in DOMAIN scanned
                       /\ ScanNames(p, node) => p \in BacklinkFiles

\* C18's case: Back-links has reported two files, the one the walk came by
\* second first.
C18_Witness ==
    /\ op = "backlinks" /\ phase = "done"
    /\ Len(order) = 2 /\ Len(printed) = 2
    /\ printed[1].file = order[2]
    /\ printed[2].file = order[1]

====
